---- MODULE Spec2Model ----
(***************************************************************************)
(* Model of stellaris-timer (src/src/main.rs): the calendar value, the     *)
(* OCR text parser, the clock synchronisation task `capture`, the          *)
(* foreground handler MyApp::update / on_close_event, the reminder store   *)
(* and the persisted file.                                                 *)
(***************************************************************************)
EXTENDS Integers, Sequences, FiniteSets, TLC

VARIABLES
    phase,      \* main thread: "running" | "joining" | "exited" | "crashed"
    pc,         \* main thread position: "idle" | "scan" (in update) | "closing"
    cursor,     \* index of the next entry visited by the for loop of update
    date,       \* Arc<RwLock<Date>>: the shared current-date cell
    reminders,  \* Reminders(BTreeMap<StampedDate, (String, bool)>)
    removing,   \* MyApp::removing: Vec<StampedDate>
    file,       \* content of ~/.stellaris-timer
    sync,       \* capture task: "cycle" | "wait" | "stopped" | "panicked" | "killed"
    permit,     \* the Notify: a stored notify_one permit
    now,        \* SystemTime::now(), as a tick count
    run,        \* number of process starts so far
    \* history variables, not program state
    signalled,  \* notify_one has been called in this run
    notified,   \* per key: how often play_raw ran for it in this run
    scanStart,  \* the store and `notified` when the for loop of update began
    scanMoved,  \* the cell has changed while the for loop of update ran
    afterSig,   \* [cycles, writes] of the capture task since notify_one
    closeSave,  \* on_close_event has completed its dump in this run
    everSynced, \* some capture cycle has written the cell, in any run
    \* the pure-function specifications
    fin,        \* input under evaluation
    fout,       \* result of the evaluation
    \* the RwLock of the cell, and the accesses to the cell step by step
    lock,       \* RwLock state: [writer, readers]
    wr,         \* capture task: its position around the write of lines 129-130
    rd,         \* main thread: its position in a read of the cell, and the copy
    stored      \* history: the values the cell has held after a whole write

cellVars == <<lock, wr, rd, stored>>

vars == <<phase, pc, cursor, date, reminders, removing, file, sync, permit,
          now, run, signalled, notified, scanStart, scanMoved, afterSig, closeSave, everSynced, fin, fout,
          lock, wr, rd, stored>>

(***************************************************************************)
(* Bounds of the model                                                     *)
(***************************************************************************)
MaxInserts == 2     \* clicks on Add that pass the range check, over all runs
MaxRuns == 2        \* process starts
MaxNotified == 2    \* cap of the per-key notification counter

(***************************************************************************)
(* Program constants                                                       *)
(***************************************************************************)
U16 == 65536                 \* width of u16 (Date::year, with_days_added)
MinInterval == 1             \* update: interval >= 1f64
MaxInterval == 300 * 360     \* update: interval <= 300f64 * 360f64
YearBelow == 3000            \* parse_dt: y < 3000
YearAbove == 2199            \* parse_dt: y > 2199
MonthBelow == 13             \* parse_dt: m < 13
DayBelow == 31               \* parse_dt: d < 31

\* Option: None is the empty sequence, Some(v) the sequence of v alone
None == <<>>
Some(v) == <<v>>
\* the result of a u16 operation that panicked
Overflowed == -1
EmptyMap == [k \in {} |-> 0]

(***************************************************************************)
(* Date                                                                    *)
(***************************************************************************)
MkDate(y, m, d) == [year |-> y, month |-> m, day |-> d]

\* impl Default for Date
DefaultDate == MkDate(2200, 1, 1)

\* Date::days_since_jesus (u32: no overflow for u16 year, u8 month and day)
days_since_jesus(self) == self.year * 360 + self.month * 30 + self.day

\* Ord for Date: -1 Less, 0 Equal, 1 Greater
DateCmp(a, b) ==
    IF days_since_jesus(a) < days_since_jesus(b) THEN -1
    ELSE IF days_since_jesus(a) = days_since_jesus(b) THEN 0 ELSE 1

\* date.lt(other) in the place of date.le(other)
DateLe_Strict(a, b) == DateCmp(a, b) = -1

\* date.le(other)
DateLe(a, b) == DateCmp(a, b) # 1

\* an order of the keys by the time first, the date on equal times
StampedCmp_TimeFirst(a, b) ==
    IF a.time = b.time THEN DateCmp(a.date, b.date)
    ELSE IF a.time < b.time THEN -1 ELSE 1

\* Ord for StampedDate: the date first, the time on Equal
StampedCmp(a, b) ==
    IF DateCmp(a.date, b.date) = 0
    THEN (IF a.time < b.time THEN -1 ELSE IF a.time = b.time THEN 0 ELSE 1)
    ELSE DateCmp(a.date, b.date)

\* u16 arithmetic: `checked` is the overflow-checks setting of the build;
\* an overflow panics when it is on and wraps when it is off
U16Op(v, checked) ==
    IF v >= 0 /\ v < U16 THEN v
    ELSE IF checked THEN Overflowed ELSE v % U16

\* Date::with_days_added: Some(date), or None when an operation panicked
with_days_added(self, days, checked) ==
    LET day0 == U16Op(self.day + days, checked) IN
    IF day0 = Overflowed THEN None ELSE
    LET dm1 == U16Op(day0 - 1, checked) IN
    IF dm1 = Overflowed THEN None ELSE
    LET month_added == dm1 \div 30
        day == ((dm1 % 30) + 1) % 256
        month0 == U16Op(month_added + self.month - 1, checked)
    IN
    IF month0 = Overflowed THEN None ELSE
    LET year_added == month0 \div 12
        month == ((month0 % 12) + 1) % 256
        year == U16Op(self.year + year_added, checked)
    IN
    IF year = Overflowed THEN None ELSE Some(MkDate(year, month, day))

(***************************************************************************)
(* recognize_date and parse_dt.  A text is a sequence of characters.       *)
(***************************************************************************)
AsciiDigit == {"0", "1", "2", "3", "4", "5", "6", "7", "8", "9"}
\* a decimal digit outside ASCII (ARABIC-INDIC DIGIT THREE), one character
ArabicThree == "U+0663"
Whitespace == {" ", "\n", "\t"}

\* \d of the regex crate is Unicode-aware
IsDigit(c) == c \in AsciiDigit \cup {ArabicThree}
\* . of the regex crate: any character except \n
IsDot(c) == c # "\n"

DigitVal(c) ==
    CASE c = "0" -> 0 [] c = "1" -> 1 [] c = "2" -> 2 [] c = "3" -> 3
      [] c = "4" -> 4 [] c = "5" -> 5 [] c = "6" -> 6 [] c = "7" -> 7
      [] c = "8" -> 8 [] c = "9" -> 9

RECURSIVE TrimStart(_)
TrimStart(t) ==
    IF t # <<>> /\ Head(t) \in Whitespace THEN TrimStart(Tail(t)) ELSE t

RECURSIVE TrimEnd(_)
TrimEnd(t) ==
    IF t # <<>> /\ t[Len(t)] \in Whitespace
    THEN TrimEnd(SubSeq(t, 1, Len(t) - 1)) ELSE t

\* str::trim
Trim(t) == TrimEnd(TrimStart(t))

\* Regex::new(r"^(\d{4}).(\d{2}).(\d{2})$").captures: the three groups, or None
Captures(t) ==
    IF /\ Len(t) = 10
       /\ \A i \in {1, 2, 3, 4, 6, 7, 9, 10} : IsDigit(t[i])
       /\ IsDot(t[5]) /\ IsDot(t[8])
    THEN Some(<<SubSeq(t, 1, 4), SubSeq(t, 6, 7), SubSeq(t, 9, 10)>>)
    ELSE None

RECURSIVE DecimalValue(_)
DecimalValue(g) ==
    IF g = <<>> THEN 0
    ELSE DecimalValue(SubSeq(g, 1, Len(g) - 1)) * 10 + DigitVal(g[Len(g)])

\* str::parse for an unsigned integer below `limit`: Err on a character that
\* is not an ASCII digit and on overflow
ParseUInt(g, limit) ==
    IF \E i \in 1..Len(g) : g[i] \notin AsciiDigit THEN None
    ELSE IF DecimalValue(g) >= limit THEN None ELSE Some(DecimalValue(g))

\* parse_dt
parse_dt(res) ==
    LET y == ParseUInt(res[1], U16)
        m == ParseUInt(res[2], 256)
        d == ParseUInt(res[3], 256)
    IN  IF y = None \/ m = None \/ d = None THEN None
        ELSE IF /\ y[1] < YearBelow /\ y[1] > YearAbove
                /\ m[1] < MonthBelow /\ d[1] < DayBelow
             THEN Some(MkDate(y[1], m[1], d[1]))
             ELSE None

\* recognize_date, lines 180-181: matcher.captures(res)?, then parse_dt
ParseText(res) ==
    LET caps == Captures(res) IN IF caps = None THEN None ELSE parse_dt(caps[1])

\* recognize_date, lines 177-181, from the text get_utf8_text returned
recognize_text(text) == ParseText(Trim(text))

(***************************************************************************)
(* Reminders: BTreeMap<StampedDate, (String, bool)>.  The map identifies   *)
(* keys by Ord for StampedDate.                                            *)
(***************************************************************************)
StampedDate(time, d) == [time |-> time, date |-> d]
Entry(text, highlighted) == [text |-> text, triggered |-> highlighted]

\* BTreeMap::insert: an equal key keeps the old key and takes the new value
BTreeInsert(map, k, v) ==
    IF \E q \in DOMAIN map : StampedCmp(q, k) = 0
    THEN [q \in DOMAIN map |-> IF StampedCmp(q, k) = 0 THEN v ELSE map[q]]
    ELSE (k :> v) @@ map

\* BTreeMap::remove
BTreeRemove(map, k) ==
    [q \in {x \in DOMAIN map : StampedCmp(x, k) # 0} |-> map[q]]

RECURSIVE RemoveAll(_, _)
\* removing.drain(..).for_each(|d| reminders.remove(&d))
RemoveAll(map, ks) ==
    IF ks = <<>> THEN map ELSE RemoveAll(BTreeRemove(map, Head(ks)), Tail(ks))

\* the i-th key of the map in the order of Ord for StampedDate (the keys of
\* a BTreeMap are pairwise unequal in that order)
KeyAt(map, i) ==
    CHOOSE k \in DOMAIN map :
        Cardinality({q \in DOMAIN map : StampedCmp(q, k) = -1}) = i - 1

\* BTreeMap::iter / iter_mut: the keys in ascending order
Iter(map) == [i \in 1..Cardinality(DOMAIN map) |-> KeyAt(map, i)]

(***************************************************************************)
(* Persistence: serde_json of (Date, Reminders)                            *)
(***************************************************************************)
Absent == [kind |-> "absent"]
Corrupt == [kind |-> "corrupt"]

\* a serializer that writes every flag as false
Serialize_NoFlag(map) ==
    LET v == Iter(map) IN [i \in 1..Len(v) |-> <<v[i], Entry(map[v[i]].text, FALSE)>>]

\* Serialize for Reminders: the Vec of the entries in iteration order
Serialize(map) ==
    LET v == Iter(map) IN [i \in 1..Len(v) |-> <<v[i], map[v[i]]>>]

RECURSIVE Deserialize(_)
\* Deserialize for Reminders: v.into_iter().collect()
Deserialize(v) ==
    IF v = <<>> THEN EmptyMap
    ELSE BTreeInsert(Deserialize(SubSeq(v, 1, Len(v) - 1)),
                     v[Len(v)][1], v[Len(v)][2])

\* what MyApp::dump writes when it succeeds
Dumped(d, map) == [kind |-> "data", date |-> d, entries |-> Serialize(map)]

\* MyApp::dump, by the outcome of File::create and of to_writer: the file
\* after the call; every outcome but "ok" panics
DumpOutcomes == {"ok", "create_err", "write_err"}
DumpFile(old, d, map, out) ==
    IF out = "ok" THEN Dumped(d, map)
    ELSE IF out = "create_err" THEN old
    ELSE Corrupt

\* a load that keeps a date for a file that does not deserialize
Load_KeepsDate(f) ==
    IF f.kind = "data" THEN <<f.date, Deserialize(f.entries)>>
    ELSE IF f.kind = "corrupt" THEN <<MkDate(2200, 1, 2), EmptyMap>>
    ELSE <<DefaultDate, EmptyMap>>

\* main, lines 325-329: the loaded pair, the defaults for an absent file and
\* for one that does not deserialize
Load(f) ==
    IF f.kind = "data" THEN <<f.date, Deserialize(f.entries)>>
    ELSE <<DefaultDate, EmptyMap>>

(***************************************************************************)
(* Inputs                                                                  *)
(***************************************************************************)
\* what the OCR engine returns in the model of the whole program
TextDay2 == <<"2", "2", "0", "0", ".", "0", "1", ".", "0", "2", "\n">>
TextDay3 == <<"2", "2", "0", "0", ".", "0", "1", ".", "0", "3", "\n">>
TextNoMatch == <<"a", "b", "c", "d">>
SyncTexts == {TextDay2, TextDay3, TextNoMatch}

\* the outcome of the capture and OCR calls of one recognize_date
Outcomes(texts) ==
    {[kind |-> "capture_err", text |-> <<>>], [kind |-> "ocr_err", text |-> <<>>]}
    \cup {[kind |-> "text", text |-> t] : t \in texts}

\* meval::eval_str(&self.interval): Err, or Ok of an f64 given in half days
Interval(kind, half) == [kind |-> kind, half |-> half]
IntervalInputs ==
    {Interval("err", 0), Interval("num", 1), Interval("num", 2),
     Interval("num", 2 * MaxInterval + 1)}

\* reminder_text: the text typed for the n-th reminder
Labels(n) == IF n % 2 = 0 THEN {"a"} ELSE {"b"}

\* update, line 245: interval >= 1f64 && interval <= 300f64 * 360f64
Accepted(input) ==
    /\ input.kind = "num"
    /\ input.half >= 2 * MinInterval
    /\ input.half <= 2 * MaxInterval

\* update, line 246: interval as u16 truncates and saturates
AsU16(input) ==
    IF input.half \div 2 >= U16 THEN U16 - 1 ELSE input.half \div 2

\* update, line 246: the target of the new reminder
AddTarget(cell, input, checked) == with_days_added(cell, AsU16(input), checked)

NoSig == [cycles |-> 0, writes |-> 0]
NoScan == [store |-> EmptyMap, notified |-> EmptyMap]
Pending == [done |-> FALSE, value |-> None]

(***************************************************************************)
(* The state after main has loaded the file and spawned capture            *)
(***************************************************************************)
\* RwLock::new(date): unlocked, nobody reading or writing
Unlocked == [writer |-> FALSE, readers |-> 0]
WIdle == [pc |-> "capture", val |-> DefaultDate, n |-> 0]
RIdle == [pc |-> "idle", got |-> DefaultDate, n |-> 3]
CellIdle ==
    /\ lock = Unlocked
    /\ wr = WIdle
    /\ rd = RIdle
    /\ stored = {DefaultDate}

Boot ==
    /\ CellIdle
    /\ file = Absent
    /\ phase = "running"
    /\ pc = "idle"
    /\ cursor = 1
    /\ date = Load(Absent)[1]
    /\ reminders = Load(Absent)[2]
    /\ removing = <<>>
    /\ sync = "cycle"
    /\ permit = FALSE
    /\ signalled = FALSE
    /\ notified = EmptyMap
    /\ scanStart = NoScan
    /\ scanMoved = FALSE
    /\ afterSig = NoSig
    /\ closeSave = FALSE
    /\ now = 0
    /\ run = 1
    /\ everSynced = FALSE

Init ==
    /\ Boot
    /\ fin = <<>>
    /\ fout = Pending

(***************************************************************************)
(* The foreground: MyApp::update, one call per frame                       *)
(***************************************************************************)
Min(a, b) == IF a < b THEN a ELSE b

\* a panic on the main thread ends the process, the capture task and the
\* memory of the process with it
MainPanics ==
    /\ phase' = "crashed"
    /\ sync' = "killed"
    /\ pc' = "idle"
    /\ cursor' = 1
    /\ reminders' = EmptyMap
    /\ removing' = <<>>
    /\ notified' = EmptyMap
    /\ scanStart' = NoScan
    /\ scanMoved' = FALSE
    /\ permit' = FALSE

\* update, line 254: the for loop starts on the store `map`
ScanBegins(map, count) ==
    /\ pc' = "scan"
    /\ cursor' = 1
    /\ scanStart' = [store |-> map, notified |-> count]
    /\ scanMoved' = FALSE

\* update returns
FrameEnds ==
    /\ pc' = "idle"
    /\ cursor' = 1
    /\ scanStart' = NoScan
    /\ scanMoved' = FALSE

\* update, lines 234-252: the heading, the widgets and the click on Add.
\* click: button.clicked(); input: the evaluated interval field; label:
\* reminder_text; checked: the build's overflow checks; out: what dump meets
TickBegin(click, input, label, checked, out) ==
    /\ phase = "running"
    /\ pc = "idle"
    /\ (click /\ Accepted(input)) => now < MaxInserts
    /\ IF ~(click /\ Accepted(input))
       THEN /\ ScanBegins(reminders, notified)
            /\ UNCHANGED <<phase, sync, reminders, removing, notified, file, now,
                           permit>>
       ELSE LET new_date == AddTarget(date, input, checked) IN
            IF new_date = None
            THEN /\ MainPanics
                 /\ UNCHANGED <<file, now>>
            ELSE LET key == StampedDate(now, new_date[1])
                     store == BTreeInsert(reminders, key, Entry(label, FALSE))
                     count == [k \in DOMAIN store |->
                                 IF k \in DOMAIN reminders /\ StampedCmp(k, key) # 0
                                 THEN notified[k] ELSE 0]
                 IN  /\ now' = now + 1
                     /\ file' = DumpFile(file, date, store, out)
                     /\ IF out = "ok"
                        THEN /\ reminders' = store
                             /\ notified' = count
                             /\ ScanBegins(store, count)
                             /\ UNCHANGED <<phase, sync, removing, permit>>
                        ELSE MainPanics
    /\ UNCHANGED <<date, run, signalled, afterSig, closeSave, everSynced, fin, fout>>
    /\ UNCHANGED cellVars

\* the for loop without the test of the highlighted flag
ScanStep_NoLatch(clear) ==
    /\ phase = "running"
    /\ pc = "scan"
    /\ cursor <= Cardinality(DOMAIN reminders)
    /\ LET k == KeyAt(reminders, cursor)
           fire == DateLe(k.date, date)
       IN  /\ reminders' = [reminders EXCEPT ![k].triggered = fire]
           /\ notified' = IF fire
                          THEN [notified EXCEPT ![k] = Min(@ + 1, MaxNotified)]
                          ELSE notified
           /\ removing' = IF clear THEN Append(removing, k) ELSE removing
    /\ cursor' = cursor + 1
    /\ UNCHANGED <<phase, pc, date, file, sync, permit, now, run, signalled,
                   scanStart, scanMoved, afterSig, closeSave, everSynced, fin, fout>>
    /\ UNCHANGED cellVars

\* the for loop testing the date of the first entry only
ScanStep_FirstOnly(clear) ==
    /\ phase = "running"
    /\ pc = "scan"
    /\ cursor <= Cardinality(DOMAIN reminders)
    /\ LET k == KeyAt(reminders, cursor)
           highlighted == reminders[k].triggered
           fire == ~highlighted /\ cursor = 1 /\ DateLe(k.date, date)
       IN  /\ reminders' = IF fire THEN [reminders EXCEPT ![k].triggered = TRUE]
                           ELSE reminders
           /\ notified' = IF fire
                          THEN [notified EXCEPT ![k] = Min(@ + 1, MaxNotified)]
                          ELSE notified
           /\ removing' = IF clear THEN Append(removing, k) ELSE removing
    /\ cursor' = cursor + 1
    /\ UNCHANGED <<phase, pc, date, file, sync, permit, now, run, signalled,
                   scanStart, scanMoved, afterSig, closeSave, everSynced, fin, fout>>
    /\ UNCHANGED cellVars

\* update, lines 254-288: one iteration of the for loop over the entries.
\* clear: the entry's Clear button is clicked
ScanStep(clear) ==
    /\ phase = "running"
    /\ pc = "scan"
    /\ cursor <= Cardinality(DOMAIN reminders)
    /\ LET k == KeyAt(reminders, cursor)
           highlighted == reminders[k].triggered
           fire == ~highlighted /\ DateLe(k.date, date)
       IN  /\ reminders' = IF fire THEN [reminders EXCEPT ![k].triggered = TRUE]
                           ELSE reminders
           /\ notified' = IF fire
                          THEN [notified EXCEPT ![k] = Min(@ + 1, MaxNotified)]
                          ELSE notified
           /\ removing' = IF clear THEN Append(removing, k) ELSE removing
    /\ cursor' = cursor + 1
    /\ UNCHANGED <<phase, pc, date, file, sync, permit, now, run, signalled,
                   scanStart, scanMoved, afterSig, closeSave, everSynced, fin, fout>>
    /\ UNCHANGED cellVars

\* the removal of lines 290-293 without the dump of line 294
TickEnd_NoDump(out) ==
    /\ phase = "running"
    /\ pc = "scan"
    /\ cursor > Cardinality(DOMAIN reminders)
    /\ IF removing = <<>>
       THEN UNCHANGED <<reminders, removing, notified>>
       ELSE LET store == RemoveAll(reminders, removing) IN
            /\ reminders' = store
            /\ removing' = <<>>
            /\ notified' = [k \in DOMAIN store |-> notified[k]]
    /\ FrameEnds
    /\ UNCHANGED <<phase, sync, permit, file, date, now, run, signalled, afterSig,
                   closeSave, everSynced, fin, fout>>
    /\ UNCHANGED cellVars

\* update, lines 290-297: the reminders cleared in this frame are removed,
\* the file is written, and update returns; out: what dump meets
TickEnd(out) ==
    /\ phase = "running"
    /\ pc = "scan"
    /\ cursor > Cardinality(DOMAIN reminders)
    /\ IF removing = <<>>
       THEN /\ FrameEnds
            /\ UNCHANGED <<phase, sync, reminders, removing, notified, file, permit>>
       ELSE LET store == RemoveAll(reminders, removing) IN
            /\ file' = DumpFile(file, date, store, out)
            /\ IF out = "ok"
               THEN /\ reminders' = store
                    /\ removing' = <<>>
                    /\ notified' = [k \in DOMAIN store |-> notified[k]]
                    /\ FrameEnds
                    /\ UNCHANGED <<phase, sync, permit>>
               ELSE MainPanics
    /\ UNCHANGED <<date, now, run, signalled, afterSig, closeSave, everSynced,
                   fin, fout>>
    /\ UNCHANGED cellVars

(***************************************************************************)
(* Shutdown: MyApp::on_close_event, then main joins the capture task       *)
(***************************************************************************)
\* on_close_event, line 300: self.dump()
CloseDump(out) ==
    /\ phase = "running"
    /\ pc = "idle"
    /\ file' = DumpFile(file, date, reminders, out)
    /\ IF out = "ok"
       THEN /\ pc' = "closing"
            /\ closeSave' = TRUE
            /\ UNCHANGED <<phase, sync, cursor, reminders, removing, notified,
                           scanStart, scanMoved, permit>>
       ELSE /\ MainPanics
            /\ UNCHANGED closeSave
    /\ UNCHANGED <<date, now, run, signalled, afterSig, everSynced,
                   fin, fout>>
    /\ UNCHANGED cellVars

\* notify_waiters in the place of notify_one: no permit is stored when the
\* task is not waiting
CloseNotify_Waiters ==
    /\ phase = "running"
    /\ pc = "closing"
    /\ permit' = (sync = "wait")
    /\ signalled' = TRUE
    /\ phase' = "joining"
    /\ pc' = "idle"
    /\ UNCHANGED <<cursor, date, reminders, removing, file, sync, now, run,
                   notified, scanStart, scanMoved, afterSig, closeSave,
                   everSynced, fin, fout>>
    /\ UNCHANGED cellVars

\* on_close_event, lines 301-302: notify_one stores a permit when the task
\* is not waiting, and wakes it when it is; the window then closes
CloseNotify ==
    /\ phase = "running"
    /\ pc = "closing"
    /\ permit' = TRUE
    /\ signalled' = TRUE
    /\ phase' = "joining"
    /\ pc' = "idle"
    /\ UNCHANGED <<cursor, date, reminders, removing, file, sync, now, run,
                   notified, scanStart, scanMoved, afterSig, closeSave,
                   everSynced, fin, fout>>
    /\ UNCHANGED cellVars

\* main returning without the join of line 363
Join_NoWait ==
    /\ phase = "joining"
    /\ phase' = "exited"
    /\ reminders' = EmptyMap
    /\ notified' = EmptyMap
    /\ permit' = FALSE
    /\ sync' = IF sync \in {"stopped", "panicked"} THEN sync ELSE "killed"
    /\ UNCHANGED <<pc, cursor, date, removing, file, now, run, signalled,
                   scanStart, scanMoved, afterSig, closeSave,
                   everSynced, fin, fout>>
    /\ UNCHANGED cellVars

\* main, line 363: tokio::join!(ocr) returns once the task has ended, and
\* the process exits
Join ==
    /\ phase = "joining"
    /\ sync \in {"stopped", "panicked"}
    /\ phase' = "exited"
    /\ reminders' = EmptyMap
    /\ notified' = EmptyMap
    /\ permit' = FALSE
    /\ UNCHANGED <<pc, cursor, date, removing, file, sync, now, run, signalled,
                   scanStart, scanMoved, afterSig, closeSave,
                   everSynced, fin, fout>>
    /\ UNCHANGED cellVars

(***************************************************************************)
(* The background task: capture                                            *)
(***************************************************************************)
Alive == phase \in {"running", "joining"}

\* a cycle that puts the default date back when the text does not parse
SyncCycle_ResetOnMiss(o) ==
    /\ Alive
    /\ sync = "cycle"
    /\ IF o.kind # "text"
       THEN /\ sync' = "panicked"
            /\ UNCHANGED <<date, everSynced, afterSig, scanMoved>>
       ELSE /\ sync' = "wait"
            /\ LET new_d == recognize_text(o.text) IN
               /\ date' = IF new_d = None THEN DefaultDate ELSE new_d[1]
               /\ everSynced' = TRUE
               /\ afterSig' = IF signalled
                              THEN [afterSig EXCEPT !.writes = Min(@ + 1, 2)]
                              ELSE afterSig
               /\ scanMoved' = (scanMoved \/ (pc = "scan" /\ date' # date))
    /\ UNCHANGED <<phase, pc, cursor, reminders, removing, file, permit, now, run,
                   signalled, notified, scanStart, closeSave, fin, fout>>
    /\ UNCHANGED cellVars

\* capture, lines 128-131: recognize_date, then *d.write() = new_d.  The
\* unwraps of lines 158-177 panic on a capture or OCR error, which ends the
\* task
SyncCycle(o) ==
    /\ Alive
    /\ sync = "cycle"
    /\ IF o.kind # "text"
       THEN /\ sync' = "panicked"
            /\ UNCHANGED <<date, everSynced, afterSig, scanMoved>>
       ELSE /\ sync' = "wait"
            /\ LET new_d == recognize_text(o.text) IN
               IF new_d = None
               THEN UNCHANGED <<date, everSynced, afterSig, scanMoved>>
               ELSE /\ date' = new_d[1]
                    /\ everSynced' = TRUE
                    /\ afterSig' = IF signalled
                                   THEN [afterSig EXCEPT !.writes = Min(@ + 1, 2)]
                                   ELSE afterSig
                    /\ scanMoved' = (scanMoved \/ (pc = "scan" /\ date' # date))
    /\ UNCHANGED <<phase, pc, cursor, reminders, removing, file, permit, now, run,
                   signalled, notified, scanStart, closeSave, fin, fout>>
    /\ UNCHANGED cellVars

\* capture, lines 132-136: the select! when the sleep completes first
SyncSleep ==
    /\ Alive
    /\ sync = "wait"
    /\ ~permit
    /\ sync' = "cycle"
    /\ afterSig' = IF signalled THEN [afterSig EXCEPT !.cycles = Min(@ + 1, 2)]
                   ELSE afterSig
    /\ UNCHANGED <<phase, pc, cursor, date, reminders, removing, file, permit,
                   now, run, signalled, notified, scanStart, scanMoved, closeSave, everSynced, fin, fout>>
    /\ UNCHANGED cellVars

\* capture, lines 137-139: notified completes, break 'outer
SyncBreak ==
    /\ Alive
    /\ sync = "wait"
    /\ permit
    /\ sync' = "stopped"
    /\ permit' = FALSE
    /\ UNCHANGED <<phase, pc, cursor, date, reminders, removing, file, now, run,
                   signalled, notified, scanStart, scanMoved, afterSig,
                   closeSave, everSynced, fin, fout>>
    /\ UNCHANGED cellVars

(***************************************************************************)
(* The next start of the program: main, lines 320-333                      *)
(***************************************************************************)
Restart ==
    /\ phase \in {"exited", "crashed"}
    /\ run < MaxRuns
    /\ run' = run + 1
    /\ phase' = "running"
    /\ pc' = "idle"
    /\ cursor' = 1
    /\ date' = Load(file)[1]
    /\ reminders' = Load(file)[2]
    /\ removing' = <<>>
    /\ sync' = "cycle"
    /\ permit' = FALSE
    /\ signalled' = FALSE
    /\ notified' = [k \in DOMAIN Load(file)[2] |-> 0]
    /\ scanStart' = NoScan
    /\ scanMoved' = FALSE
    /\ afterSig' = NoSig
    /\ closeSave' = FALSE
    /\ UNCHANGED <<file, now, everSynced, fin, fout>>
    /\ UNCHANGED cellVars

(***************************************************************************)
(* One run of the program                                                  *)
(***************************************************************************)
Tick ==
    \/ \E click \in BOOLEAN, input \in IntervalInputs, label \in Labels(now),
          checked \in BOOLEAN, out \in DumpOutcomes :
            TickBegin(click, input, label, checked, out)
    \/ \E clear \in BOOLEAN : ScanStep(clear)
    \/ \E out \in DumpOutcomes : TickEnd(out)

Close ==
    \/ \E out \in DumpOutcomes : CloseDump(out)
    \/ CloseNotify
    \/ Join

Capture ==
    \/ \E o \in Outcomes(SyncTexts) : SyncCycle(o)
    \/ SyncSleep
    \/ SyncBreak

Next == Tick \/ Close \/ Capture

Spec == Init /\ [][Next]_vars

\* update repaints continuously (line 232), the runtime keeps polling the
\* capture task, and on_close_event and main run to their end
FairSpec ==
    /\ Spec
    /\ WF_vars(Tick)
    /\ WF_vars(Capture)
    /\ WF_vars(CloseNotify)
    /\ WF_vars(Join)

\* successive runs of the program on the same file
NextLife == Next \/ Restart
SpecLife == Init /\ [][NextLife]_vars

(***************************************************************************)
(* The parser alone: regex and parse_dt on one text                        *)
(***************************************************************************)
PYears ==
    {<<"2", "1", "9", "9">>, <<"2", "2", "0", "0">>, <<"2", "2", "5", "0">>,
     <<"2", "5", "0", "0">>, <<"2", "9", "9", "9">>, <<"3", "0", "0", "0">>,
     <<"2", "2", "0">>, <<"2", "2", "a", "0">>}
PSeps == {<<".">>, <<"-">>, <<"5">>, <<"\n">>, <<>>}
PMonths ==
    {<<"0", "0">>, <<"0", "1">>, <<"0", "6">>, <<"1", "2">>, <<"1", "3">>, <<"6">>}
PDays ==
    {<<"0", "0">>, <<"0", "1">>, <<"1", "5">>, <<"3", "0">>, <<"3", "1">>,
     <<"3", ArabicThree>>}
PTails == {<<>>, <<"\n">>}

ParseTexts ==
    {y \o s1 \o m \o s2 \o d \o t :
        y \in PYears, s1 \in PSeps, m \in PMonths, s2 \in PSeps, d \in PDays,
        t \in PTails}

InitParse ==
    /\ Boot
    /\ fin \in ParseTexts
    /\ fout = Pending

\* recognize_date, lines 180-181, on the trimmed text fin
ParseStep ==
    /\ ~fout.done
    /\ fout' = [done |-> TRUE, value |-> ParseText(fin)]
    /\ UNCHANGED <<phase, pc, cursor, date, reminders, removing, file, sync,
                   permit, now, run, signalled, notified, scanStart, scanMoved,
                   afterSig, closeSave, everSynced, fin>>
    /\ UNCHANGED cellVars

NextParse == ParseStep
SpecParse == InitParse /\ [][NextParse]_vars

(***************************************************************************)
(* The target computation alone: update line 246 on one cell and interval  *)
(***************************************************************************)
CalcCells ==
    {MkDate(y, m, d) : y \in {2200, 2500, 2999}, m \in {1, 6, 12}, d \in {1, 15, 30}}
CalcIntervals ==
    {Interval("num", h) :
        h \in {2, 3, 60, 720, 2 * 65505, 2 * 65535, 2 * 65536, 2 * MaxInterval}}

InitCalc ==
    /\ Boot
    /\ fin \in [cell : CalcCells, input : CalcIntervals]
    /\ fout = Pending

\* update, line 246, for an accepted interval
CalcStep(checked) ==
    /\ ~fout.done
    /\ Accepted(fin.input)
    /\ fout' = [done |-> TRUE, value |-> AddTarget(fin.cell, fin.input, checked)]
    /\ UNCHANGED <<phase, pc, cursor, date, reminders, removing, file, sync,
                   permit, now, run, signalled, notified, scanStart, scanMoved,
                   afterSig, closeSave, everSynced, fin>>
    /\ UNCHANGED cellVars

NextCalc == \E checked \in BOOLEAN : CalcStep(checked)
SpecCalc == InitCalc /\ [][NextCalc]_vars

(***************************************************************************)
(* One click on Add alone: update lines 243-251 on one cell value, store   *)
(* and interval, with a file that can be written                           *)
(***************************************************************************)
AddIntervals ==
    {Interval("err", 0), Interval("nan", 0)} \cup
    {Interval("num", h) :
        h \in {0, 1, 2, 60, 720, 2 * MaxInterval, 2 * MaxInterval + 1,
               2 * MaxInterval + 2}}

\* the store after one reminder of one day was added at the default date
OneReminder == (StampedDate(0, MkDate(2200, 1, 2)) :> Entry("a", FALSE))

InitAdd ==
    /\ CellIdle
    /\ phase = "running"
    /\ pc = "idle"
    /\ cursor = 1
    /\ date \in CalcCells
    /\ \/ reminders = EmptyMap /\ file = Absent /\ now = 0
       \/ reminders = OneReminder /\ file = Dumped(DefaultDate, OneReminder) /\ now = 1
    /\ removing = <<>>
    /\ sync = "wait"
    /\ permit = FALSE
    /\ signalled = FALSE
    /\ notified = [k \in DOMAIN reminders |-> 0]
    /\ scanStart = NoScan
    /\ scanMoved = FALSE
    /\ afterSig = NoSig
    /\ closeSave = FALSE
    /\ run = 1
    /\ everSynced = TRUE
    /\ fin \in [input : AddIntervals]
    /\ fout = Pending

\* update, lines 234-252, in a frame with a click on Add
AddStep(label, checked) == TickBegin(TRUE, fin.input, label, checked, "ok")

NextAdd == \E label \in Labels(now), checked \in BOOLEAN : AddStep(label, checked)
SpecAdd == InitAdd /\ [][NextAdd]_vars

(***************************************************************************)
(* dump followed by the load of main, on one cell value and one store      *)
(***************************************************************************)
RoundDates == {DefaultDate, MkDate(2200, 12, 0), MkDate(2999, 12, 30)}
RoundKeys ==
    {StampedDate(t, d) : t \in 0..2, d \in {MkDate(2200, 1, 2), MkDate(2200, 1, 3)}}
RoundEntries == {Entry("a", FALSE), Entry("b", TRUE)}
\* the reminders inserted, in the order of the calls of insert
RoundInserts ==
    {<<>>} \cup {<<e>> : e \in RoundKeys \X RoundEntries}
           \cup {<<e1, e2>> : e1 \in RoundKeys \X RoundEntries,
                              e2 \in RoundKeys \X RoundEntries}

InitRound ==
    /\ CellIdle
    /\ phase = "running"
    /\ pc = "idle"
    /\ cursor = 1
    /\ date \in RoundDates
    /\ reminders \in {Deserialize(v) : v \in RoundInserts}
    /\ file = Absent
    /\ now = 3
    /\ removing = <<>>
    /\ sync = "wait"
    /\ permit = FALSE
    /\ signalled = FALSE
    /\ notified = [k \in DOMAIN reminders |-> 0]
    /\ scanStart = NoScan
    /\ scanMoved = FALSE
    /\ afterSig = NoSig
    /\ closeSave = FALSE
    /\ run = 1
    /\ everSynced = TRUE
    /\ fin = <<>>
    /\ fout = Pending

\* MyApp::dump, lines 307-313, then main, lines 325-329, on the file written
SaveLoad ==
    /\ ~fout.done
    /\ file' = DumpFile(file, date, reminders, "ok")
    /\ fout' = [done |-> TRUE, value |-> Some(Load(file'))]
    /\ UNCHANGED <<phase, pc, cursor, date, reminders, removing, sync, permit,
                   now, run, signalled, notified, scanStart, scanMoved,
                   afterSig, closeSave, everSynced, fin>>
    /\ UNCHANGED cellVars

\* main, lines 325-329, on the file of dump with its entries in the order p
LoadReordered(p) ==
    /\ ~fout.done
    /\ \E i \in DOMAIN p : p[i] # i
    /\ LET saved == DumpFile(file, date, reminders, "ok")
       IN  file' = [saved EXCEPT !.entries = [i \in DOMAIN p |-> saved.entries[p[i]]]]
    /\ fout' = [done |-> TRUE, value |-> Some(Load(file'))]
    /\ UNCHANGED <<phase, pc, cursor, date, reminders, removing, sync, permit,
                   now, run, signalled, notified, scanStart, scanMoved,
                   afterSig, closeSave, everSynced, fin>>
    /\ UNCHANGED cellVars

NextRound ==
    \/ SaveLoad
    \/ \E p \in Permutations(1..Cardinality(DOMAIN reminders)) : LoadReordered(p)
SpecRound == InitRound /\ [][NextRound]_vars

(***************************************************************************)
(* The three calls of dump, each with the outcome fin.out: after the       *)
(* insert of a reminder of one day, after a removal, and on close          *)
(***************************************************************************)
OneKey == StampedDate(0, MkDate(2200, 1, 2))

InitSave ==
    /\ CellIdle
    /\ phase = "running"
    /\ date \in CalcCells
    /\ \/ /\ pc = "idle" /\ cursor = 1 /\ removing = <<>>
          /\ scanStart = NoScan
          /\ \/ reminders = EmptyMap /\ file = Absent /\ now = 0
             \/ /\ reminders = OneReminder
                /\ file = Dumped(DefaultDate, OneReminder) /\ now = 1
       \/ /\ pc = "scan" /\ cursor = 2 /\ removing = <<OneKey>>
          /\ reminders = OneReminder
          /\ scanStart = [store |-> OneReminder, notified |-> (OneKey :> 0)]
          /\ file = Dumped(DefaultDate, OneReminder) /\ now = 1
    /\ sync = "wait"
    /\ permit = FALSE
    /\ signalled = FALSE
    /\ notified = [k \in DOMAIN reminders |-> 0]
    /\ scanMoved = FALSE
    /\ afterSig = NoSig
    /\ closeSave = FALSE
    /\ run = 1
    /\ everSynced = TRUE
    /\ fin \in [out : DumpOutcomes]
    /\ fout = Pending

\* update, lines 243-251, with an interval of one day
SaveOnAdd(label, checked) == TickBegin(TRUE, Interval("num", 2), label, checked, fin.out)
\* update, lines 290-295
SaveOnRemove == TickEnd(fin.out)
\* on_close_event, line 300
SaveOnClose == CloseDump(fin.out)

NextSave ==
    \/ \E label \in Labels(now), checked \in BOOLEAN : SaveOnAdd(label, checked)
    \/ SaveOnRemove
    \/ SaveOnClose
SpecSave == InitSave /\ [][NextSave]_vars

(***************************************************************************)
(* The cell behind its RwLock: the write of the capture task and a read of *)
(* the main thread, one field of Date at a time                            *)
(***************************************************************************)
mainVars == <<phase, pc, cursor, reminders, removing, file, sync, permit, now,
              run, signalled, notified, scanStart, scanMoved, afterSig,
              closeSave, everSynced, fin, fout>>

Field == <<"year", "month", "day">>
\* the dates recognize_date returns here
CellValues == {MkDate(2250, 6, 15), MkDate(2999, 12, 30)}

\* capture, line 128: recognize_date has returned Some(v)
WRecognize(v) ==
    /\ wr.pc = "capture"
    /\ wr' = [pc |-> "acquire", val |-> v, n |-> 0]
    /\ UNCHANGED <<date, lock, rd, stored, mainVars>>

\* capture, line 129: d.write() returns once nobody reads or writes
WLock ==
    /\ wr.pc = "acquire"
    /\ ~lock.writer
    /\ lock.readers = 0
    /\ lock' = [lock EXCEPT !.writer = TRUE]
    /\ wr' = [wr EXCEPT !.pc = "store"]
    /\ UNCHANGED <<date, rd, stored, mainVars>>

\* capture, line 130: *d = new_d, the next field
WStore ==
    /\ wr.pc = "store"
    /\ wr.n < 3
    /\ date' = [date EXCEPT ![Field[wr.n + 1]] = wr.val[Field[wr.n + 1]]]
    /\ wr' = [wr EXCEPT !.n = @ + 1]
    /\ UNCHANGED <<lock, rd, stored, mainVars>>

\* capture, line 131: the write guard is dropped
WUnlock ==
    /\ wr.pc = "store"
    /\ wr.n = 3
    /\ lock' = [lock EXCEPT !.writer = FALSE]
    /\ stored' = stored \cup {wr.val}
    /\ wr' = [wr EXCEPT !.pc = "capture"]
    /\ UNCHANGED <<date, rd, mainVars>>

\* a read lock that is granted while the writer holds the lock
RLock_NoExclusion ==
    /\ rd.pc = "idle"
    /\ lock' = [lock EXCEPT !.readers = @ + 1]
    /\ rd' = [rd EXCEPT !.pc = "load", !.n = 0]
    /\ UNCHANGED <<date, wr, stored, mainVars>>

\* MyApp, lines 234, 246, 256 and 309: date.read() returns once nobody writes
RLock ==
    /\ rd.pc = "idle"
    /\ ~lock.writer
    /\ lock' = [lock EXCEPT !.readers = @ + 1]
    /\ rd' = [rd EXCEPT !.pc = "load", !.n = 0]
    /\ UNCHANGED <<date, wr, stored, mainVars>>

\* the read of the next field through the guard
RLoad ==
    /\ rd.pc = "load"
    /\ rd.n < 3
    /\ rd' = [rd EXCEPT !.got[Field[rd.n + 1]] = date[Field[rd.n + 1]],
                        !.n = @ + 1]
    /\ UNCHANGED <<date, lock, wr, stored, mainVars>>

\* the read guard is dropped
RUnlock ==
    /\ rd.pc = "load"
    /\ rd.n = 3
    /\ lock' = [lock EXCEPT !.readers = @ - 1]
    /\ rd' = [rd EXCEPT !.pc = "idle"]
    /\ UNCHANGED <<date, wr, stored, mainVars>>

NextCell ==
    \/ \E v \in CellValues : WRecognize(v)
    \/ WLock
    \/ WStore
    \/ WUnlock
    \/ RLock
    \/ RLoad
    \/ RUnlock
SpecCell == Init /\ [][NextCell]_vars

(***************************************************************************)
(* Two dates returned by recognize_date, for their comparison              *)
(***************************************************************************)
CmpTexts ==
    {y \o <<".">> \o m \o <<".">> \o d :
        y \in {<<"2", "2", "0", "0">>, <<"2", "2", "0", "1">>},
        m \in {<<"0", "0">>, <<"0", "1">>, <<"0", "2">>, <<"1", "2">>, <<"1", "3">>},
        d \in {<<"0", "0">>, <<"0", "1">>, <<"3", "0">>}}

InitCmp ==
    /\ Boot
    /\ fin \in CmpTexts \X CmpTexts
    /\ fout = Pending

\* recognize_date, lines 178-181, on the two texts of fin
CmpStep ==
    /\ ~fout.done
    /\ fout' = [done |-> TRUE,
                value |-> <<recognize_text(fin[1]), recognize_text(fin[2])>>]
    /\ UNCHANGED <<phase, pc, cursor, date, reminders, removing, file, sync,
                   permit, now, run, signalled, notified, scanStart, scanMoved,
                   afterSig, closeSave, everSynced, fin>>
    /\ UNCHANGED cellVars

NextCmp == CmpStep
SpecCmp == InitCmp /\ [][NextCmp]_vars

(***************************************************************************)
(* The capture task alone, on a wider set of OCR texts                     *)
(***************************************************************************)
WideTexts ==
    {y \o <<".">> \o m \o <<".">> \o d \o <<"\n">> :
        y \in PYears, m \in PMonths, d \in PDays}

NextSync ==
    \/ \E o \in Outcomes(WideTexts) : SyncCycle(o)
    \/ SyncSleep
SpecSync == Init /\ [][NextSync]_vars

(***************************************************************************)
(* Properties                                                              *)
(***************************************************************************)
\* the for loop of the current update has visited every entry
ScanDone == phase = "running" /\ pc = "scan" /\ cursor > Cardinality(DOMAIN reminders)

\* C1: in one run of the program, whatever the interleaving of frames,
\* cell writes (backward ones included), inserts and removes, an entry's
\* triggered flag never goes from true to false while the entry is in the
\* store, and play_raw runs at most once for an entry
C1_OneShotTrigger ==
    /\ [](\A k \in DOMAIN notified : notified[k] <= 1)
    /\ [][\A k \in DOMAIN reminders :
            (k \in DOMAIN reminders' /\ reminders[k].triggered)
                => reminders'[k].triggered]_vars

\* an entry notified once, scanned again in a later frame after the cell
\* has moved back below its target
C1_Witness ==
    /\ ScanDone
    /\ \E k \in DOMAIN reminders :
         /\ scanStart.store[k].triggered
         /\ reminders[k].triggered
         /\ notified[k] = 1
         /\ ~DateLe(k.date, date)

\* C2: a for loop that ran while the cell held one value c has triggered
\* exactly the entries that were untriggered with a target <= c, with one
\* notification each, and has left every other entry's label and flag alone,
\* without a notification
C2_ScanTriggersExactlyDue ==
    (ScanDone /\ ~scanMoved) =>
        /\ DOMAIN reminders = DOMAIN scanStart.store
        /\ \A k \in DOMAIN reminders :
             LET before == scanStart.store[k]
                 due == ~before.triggered /\ days_since_jesus(k.date) <= days_since_jesus(date)
             IN  /\ reminders[k].text = before.text
                 /\ reminders[k].triggered = (before.triggered \/ due)
                 /\ notified[k] = scanStart.notified[k] + (IF due THEN 1 ELSE 0)

\* a finished loop that triggered one entry whose target equals the cell
\* and left an entry with a later target untriggered
C2_Witness ==
    /\ ScanDone
    /\ ~scanMoved
    /\ \E k1, k2 \in DOMAIN reminders :
         /\ ~scanStart.store[k1].triggered
         /\ reminders[k1].triggered
         /\ k1.date = date
         /\ ~reminders[k2].triggered
         /\ days_since_jesus(k2.date) > days_since_jesus(date)

\* C3: with frames and capture cycles scheduled fairly, again and again no
\* entry of the store is both reached by the cell and untriggered or
\* unnotified; so a reminder that stays in the store while the cell stays at
\* or past its target from some point on is eventually triggered and notified
C3_EventuallyTriggered ==
    []<>(\A k \in DOMAIN reminders :
            DateLe(k.date, date) => (reminders[k].triggered /\ notified[k] = 1))

\* a reminder triggered and notified while the cell is past its target and
\* an earlier reminder precedes it in the store
C3_Witness ==
    \E k1, k2 \in DOMAIN reminders :
        /\ StampedCmp(k1, k2) = -1
        /\ reminders[k2].triggered
        /\ notified[k2] = 1
        /\ DateLe(k2.date, date)

C10_ShutdownOrder ==
    /\ pc = "closing" =>
         /\ closeSave /\ ~signalled
         /\ file.kind = "data" /\ Deserialize(file.entries) = reminders
    /\ signalled => closeSave
    /\ phase = "exited" => (signalled /\ sync \in {"stopped", "panicked"})

\* the process has exited after the close: file written, signal raised,
\* task stopped by the signal
C10_Witness ==
    /\ phase = "exited"
    /\ closeSave
    /\ signalled
    /\ sync = "stopped"
    /\ file.kind = "data"

\* C4: a click on Add with an interval outside [1, 108000] or one that does
\* not evaluate leaves the store, the cell and the file as they are; with 1
\* and with 108000 days the click adds exactly one entry, untriggered, and
\* update goes on
C4_AddBoundaries ==
    [][LET input == fin.input
           valid == /\ input.kind = "num"
                    /\ input.half >= 2 * 1
                    /\ input.half <= 2 * 108000
       IN  /\ ~valid =>
                /\ reminders' = reminders /\ date' = date /\ file' = file
                /\ phase' = "running"
           /\ (input.kind = "num" /\ input.half \in {2 * 1, 2 * 108000}) =>
                /\ phase' = "running"
                /\ Cardinality(DOMAIN reminders') = Cardinality(DOMAIN reminders) + 1
                /\ \A k \in DOMAIN reminders :
                     k \in DOMAIN reminders' /\ reminders'[k] = reminders[k]
                /\ \A k \in DOMAIN reminders' \ DOMAIN reminders :
                     ~reminders'[k].triggered]_vars

\* C5: for an in-bounds cell value d and an accepted whole number n of days,
\* the target computed for the new reminder has its month in 1..12, its day
\* in 1..30 and a linearization exactly n above that of d
C5_TargetIsNDaysLater ==
    (fout.done /\ fin.input.half % 2 = 0) =>
        /\ fout.value # None
        /\ fout.value[1].month \in 1..12
        /\ fout.value[1].day \in 1..30
        /\ fout.value[1].year * 360 + fout.value[1].month * 30 + fout.value[1].day
             = fin.cell.year * 360 + fin.cell.month * 30 + fin.cell.day
               + fin.input.half \div 2

\* C6: the parser returns a date only for a text of the form
\* DDDD?DD?DD with non-digit separators, a year in 2200..2999, a month in
\* 1..12 and a day in 1..30, and the date returned has those three numbers
C6_ParserAcceptsOnlyValid ==
    (fout.done /\ fout.value # None) =>
        /\ Len(fin) = 10
        /\ \A i \in {1, 2, 3, 4, 6, 7, 9, 10} : fin[i] \in AsciiDigit
        /\ fin[5] \notin AsciiDigit
        /\ fin[8] \notin AsciiDigit
        /\ LET y == DecimalValue(SubSeq(fin, 1, 4))
               m == DecimalValue(SubSeq(fin, 6, 7))
               d == DecimalValue(SubSeq(fin, 9, 10))
           IN  /\ y > 2199 /\ y < 3000
               /\ m \in 1..12
               /\ d \in 1..30
               /\ fout.value[1] = [year |-> y, month |-> m, day |-> d]

\* C7: whatever the OCR returns, the cell holds a year in 2200..2999, a
\* month in 1..12 and a day in 1..30, and 2200.1.1 as long as no cycle has
\* written it
C7_CellInBounds ==
    /\ date.year \in 2200..2999
    /\ date.month \in 1..12
    /\ date.day \in 1..30
    /\ ~everSynced => date = [year |-> 2200, month |-> 1, day |-> 1]

\* C8: a cycle of the capture task always leaves the task polling, and the
\* task ends only after notify_one has been called
C8_OnlySignalStops ==
    /\ [][(sync = "cycle" /\ sync' # "cycle" /\ phase' \in {"running", "joining"})
            => (sync' = "wait")]_vars
    /\ [](sync \in {"stopped", "panicked"} => signalled)

\* C11: the load of a file just written by dump, its entries in any order,
\* yields the cell value that was saved and a store with the same keys, each
\* with the same label and the same triggered flag
C11_SaveLoadRoundTrip ==
    fout.done =>
        /\ fout.value[1][1] = date
        /\ DOMAIN fout.value[1][2] = DOMAIN reminders
        /\ \A k \in DOMAIN reminders :
             /\ fout.value[1][2][k].text = reminders[k].text
             /\ fout.value[1][2][k].triggered = reminders[k].triggered

\* a file with two entries, the later target first, one of them triggered,
\* has been loaded
C11_Witness ==
    /\ fout.done
    /\ Cardinality(DOMAIN reminders) = 2
    /\ file.entries[1][1] = KeyAt(reminders, 2)
    /\ \E k \in DOMAIN reminders : reminders[k].triggered

C13_SaveFollowsMutation ==
    [][/\ (phase = "running" /\ phase' = "running"
             /\ DOMAIN reminders' # DOMAIN reminders) =>
            file' = [kind |-> "data", date |-> date',
                     entries |-> Serialize(reminders')]
       /\ (phase = "running" /\ phase' = "joining") =>
            (closeSave /\ file.kind = "data" /\ file.entries = Serialize(reminders))
      ]_vars

\* a reminder was added and later removed, and the file holds the empty
\* store written after the removal
C13_Witness ==
    /\ phase = "running"
    /\ now > 0
    /\ reminders = EmptyMap
    /\ file.kind = "data"
    /\ file.entries = <<>>

\* C14: a save that cannot create or write the file leaves the process
\* running, the cell as it is and the capture task going
C14_SaveFailureNotFatal ==
    [][fin.out # "ok" =>
         /\ phase' = "running"
         /\ sync' = sync
         /\ date' = date]_vars

\* C15: a read of the cell that has completed holds the value the cell was
\* loaded with or a value stored whole by one write of the capture task;
\* the writer and a reader never hold the lock together, and the capture
\* task holds the lock only while it stores, not while it recognizes
C15_NoTornRead ==
    /\ (rd.pc = "idle") => (rd.got \in stored)
    /\ ~(lock.writer /\ lock.readers > 0)
    /\ lock.writer <=> (wr.pc = "store")

\* a read has returned the value of one write while the next write, of
\* another value, has stored two of its three fields
C15_Witness ==
    /\ rd.pc = "idle"
    /\ rd.got \in CellValues
    /\ wr.pc = "store"
    /\ wr.n = 2
    /\ wr.val # rd.got

\* C16: within a run the cell changes only in a step of the capture task
\* that ends a cycle, and then to a date that recognize_date returns for the
\* text of that cycle, be it earlier than the one before; the steps of
\* update, of on_close_event and of dump leave the cell as it is
C16_OnlySyncWritesCell ==
    [][date' # date =>
         /\ sync = "cycle" /\ sync' = "wait"
         /\ \E t \in SyncTexts : recognize_text(t) = Some(date')
         /\ pc' = pc /\ reminders' = reminders /\ file' = file]_vars

\* the cell has been moved back: a reminder that was triggered has a target
\* later than the cell
C16_Witness ==
    /\ everSynced
    /\ \E k \in DOMAIN reminders :
         reminders[k].triggered /\ DateCmp(k.date, date) = 1

\* C17: when the for loop of a frame has triggered a reminder with target
\* T, every reminder of the store with a target <= T is triggered at the
\* end of that loop, also when the capture task wrote the cell meanwhile
C17_ScanUsesOneValue ==
    ScanDone =>
        \A k, j \in DOMAIN reminders :
            (/\ ~scanStart.store[k].triggered
             /\ reminders[k].triggered
             /\ days_since_jesus(j.date) <= days_since_jesus(k.date))
                => reminders[j].triggered

\* C18: dates compare by year*360 + month*30 + day, so that
\* 2200.1.1 < 2200.1.2 < 2200.2.1 < 2201.1.1, and the store iterates its
\* keys by ascending date, by ascending time among keys of equal date
C18_OrderedByDateThenTime ==
    /\ DateCmp([year |-> 2200, month |-> 1, day |-> 1],
               [year |-> 2200, month |-> 1, day |-> 2]) = -1
    /\ DateCmp([year |-> 2200, month |-> 1, day |-> 2],
               [year |-> 2200, month |-> 2, day |-> 1]) = -1
    /\ DateCmp([year |-> 2200, month |-> 2, day |-> 1],
               [year |-> 2201, month |-> 1, day |-> 1]) = -1
    /\ DateCmp([year |-> 2201, month |-> 1, day |-> 1],
               [year |-> 2200, month |-> 1, day |-> 1]) = 1
    /\ LET v == Iter(reminders)
           lin(d) == d.year * 360 + d.month * 30 + d.day
       IN  \A i, j \in DOMAIN v :
               i < j => \/ lin(v[i].date) < lin(v[j].date)
                        \/ /\ lin(v[i].date) = lin(v[j].date)
                           /\ v[i].time < v[j].time

\* the store holds a reminder that was added later than another one and has
\* the earlier target, so that it comes first in the iteration
C18_Witness ==
    /\ phase = "running"
    /\ Cardinality(DOMAIN reminders) = 2
    /\ KeyAt(reminders, 1).time > KeyAt(reminders, 2).time
    /\ DateCmp(KeyAt(reminders, 1).date, KeyAt(reminders, 2).date) = -1

\* C19: two dates returned by the parser compare Equal exactly when their
\* year, month and day are the same
C19_EqualOnlyIfSame ==
    (fout.done /\ fout.value[1] # None /\ fout.value[2] # None) =>
        LET a == fout.value[1][1]
            b == fout.value[2][1]
        IN  (DateCmp(a, b) = 0) <=>
                (a.year = b.year /\ a.month = b.month /\ a.day = b.day)

\* C20: whenever update has returned, the store last written to the file is
\* the store in memory, the triggered flags included
C20_FileMatchesMemory ==
    (phase = "running" /\ pc = "idle" /\ file.kind = "data") =>
        /\ DOMAIN Deserialize(file.entries) = DOMAIN reminders
        /\ \A k \in DOMAIN reminders :
             /\ Deserialize(file.entries)[k].text = reminders[k].text
             /\ Deserialize(file.entries)[k].triggered = reminders[k].triggered

====
